---- MODULE Spec2Model ----
\* A state-machine model of whisp_gui.py: the configuration merge done by
\* App.__init__, the interactive handlers of the Tk main thread, and the
\* pipeline worker thread (run_pipeline / process_one) with the files it
\* leaves on disk.
EXTENDS Integers, Sequences, FiniteSets, TLC

VARIABLES
    phase,      \* "boot" before App.__init__, "ready" after it, "crashed" if it raised
    conf,       \* the external config file: a sequence of lines (<<>> = no file)
    settings,   \* self.settings, the persisted JSON record: key -> JSON value
    var,        \* the Tk variables of App (whisper_bin, overwrite, ...)
    params,     \* the rows of self.param_tree, in order
    files,      \* self.files
    go_btn,     \* state of the Transcribe button
    status,     \* text of the status label
    worker,     \* self.worker: id of the last thread started, 0 = None
    th,         \* the worker threads: id -> locals of run_pipeline / process_one
    dirs,       \* directories that exist on disk
    fs,         \* artifact files that exist on disk: path -> modification time
    clock,      \* the file system's clock
    edits       \* number of interactive edits made so far

vars == <<phase, conf, settings, var, params, files, go_btn, status, worker, th,
          dirs, fs, clock, edits>>

---------------------------------------------------------------------------
\* Bounds of the model.

MaxRuns == 1        \* worker threads started in one session
MaxEdits == 2       \* interactive edits (file list, check boxes) in one session
MaxSuffix == 3      \* largest i that unique_dir tries in "name (i)"

Inputs == {"clip", "clip2"}     \* stems of the media files the dialog offers
InDir == "in"                   \* the directory that holds them (p.parent)

---------------------------------------------------------------------------
\* Small helpers on sequences and functions.

Range(s) == {s[i] : i \in 1..Len(s)}

Has(f, k) == k \in DOMAIN f

Put(f, k, v) == [x \in DOMAIN f \cup {k} |-> IF x = k THEN v ELSE f[x]]

Without(f, k) == [x \in DOMAIN f \ {k} |-> f[x]]

Empty == [x \in {} |-> 0]

---------------------------------------------------------------------------
\* Strings. Python string operations are modelled on the strings the model
\* uses: each operator returns what the Python call returns on that string.

\* str.strip()
Strip(s) ==
    CASE s = " " -> ""
      [] s = " 0.2 " -> "0.2"
      [] s = " --flag" -> "--flag"
      [] OTHER -> s

\* os.path.expanduser(os.path.expandvars(s))
Expand(s) ==
    CASE s = "~/m.bin" -> "/home/u/m.bin"
      [] s = "$HOME/w" -> "/home/u/w"
      [] OTHER -> s

\* shlex.split(s): the tokens, or a ValueError (unbalanced quote)
ShlexSplit(s) ==
    CASE s = "" -> [ok |-> TRUE, toks |-> <<>>]
      [] s = "-bs 5" -> [ok |-> TRUE, toks |-> <<"-bs", "5">>]
      [] s = "--prompt 'a b'" -> [ok |-> TRUE, toks |-> <<"--prompt", "a b">>]
      [] s = "--prompt 'a" -> [ok |-> FALSE, toks |-> <<>>]
      [] OTHER -> [ok |-> TRUE, toks |-> <<s>>]

\* int(s) for a string s: the number, or -1 for a ValueError
ParseInt(s) ==
    CASE s = "0" -> 0
      [] s = "1" -> 1
      [] s = "2" -> 2
      [] OTHER -> -1

---------------------------------------------------------------------------
\* Configuration: DEFAULTS, the external config file, the persisted record.

\* JSON values of the persisted record are tagged by their type.
JStr(s) == [str |-> s]
JInt(n) == [int |-> n]
JBool(b) == [bool |-> b]
JList(l) == [list |-> l]

\* str(v) of a JSON value
PyStr(j) ==
    IF Has(j, "str") THEN j.str
    ELSE IF Has(j, "int") THEN (CASE j.int = 0 -> "0" [] j.int = 1 -> "1" [] OTHER -> "2")
    ELSE IF Has(j, "bool") THEN (IF j.bool THEN "True" ELSE "False")
    ELSE "[]"

\* bool(v) of a JSON value
PyBool(j) ==
    IF Has(j, "bool") THEN j.bool
    ELSE IF Has(j, "int") THEN j.int # 0
    ELSE IF Has(j, "str") THEN j.str # ""
    ELSE j.list # <<>>

DEFAULTS ==
    [k \in {"WHISPER_BIN", "WHISPER_MODEL", "FFMPEG_BIN", "LANG", "OUTDIR",
            "KEEP_WAV", "OVERWRITE"} |->
        CASE k = "WHISPER_BIN" -> "/home/u/whisper.cpp/build/bin/whisper-cli"
          [] k = "WHISPER_MODEL" -> "/home/u/whisper.cpp/models/ggml-large-v3.bin"
          [] k = "FFMPEG_BIN" -> "ffmpeg"
          [] k = "LANG" -> "ru"
          [] k = "OUTDIR" -> ""
          [] OTHER -> "0"]

\* Keys the pattern ^([A-Z_]+) accepts, among the keys the model's files use.
UpperKeys ==
    {"WHISPER_BIN", "WHISPER_MODEL", "FFMPEG_BIN", "LANG", "OUTDIR", "KEEP_WAV",
     "OVERWRITE", "EXTRA_ARGS", "THREADS"}

\* A line of the config file is [key, q, v]: the text before "=", how the value
\* is quoted ("dq", "sq" or "no") and the text of the value; a blank line has
\* key "" and a comment line has key "#".
KvLine(k, q, v) == [key |-> k, q |-> q, v |-> v]

\* One line of load_shellish_kv_config's loop: the dict after the line.
ParseLine(cfg, line) ==
    IF line.key = "" \/ line.key = "#" THEN cfg
    ELSE IF line.key \notin UpperKeys THEN cfg
    ELSE Put(cfg, line.key, Expand(Strip(line.v)))

RECURSIVE ParseLines(_, _)
ParseLines(cfg, lines) ==
    IF lines = <<>> THEN cfg
    ELSE ParseLines(ParseLine(cfg, Head(lines)), Tail(lines))

load_shellish_kv_config(lines) == ParseLines(Empty, lines)

\* cfg = dict(DEFAULTS); cfg.update(load_shellish_kv_config(CONFIG_PATH))
MergedCfg(lines) ==
    LET c == load_shellish_kv_config(lines)
    IN  [k \in DOMAIN DEFAULTS \cup DOMAIN c |-> IF Has(c, k) THEN c[k] ELSE DEFAULTS[k]]

\* sget(key, default): self.settings.get(key, cfg.get(key, default))
sget(s, cfg, key, default) ==
    IF Has(s, key) THEN s[key]
    ELSE IF Has(cfg, key) THEN JStr(cfg[key])
    ELSE default

\* self.settings.get(key, default)
SettingsGet(s, key, default) == IF Has(s, key) THEN s[key] ELSE default

\* The Tk variables App.__init__ creates from the settings record s and the
\* merged config cfg; ok is FALSE when int() raises on a flag.
EffectiveVars(s, cfg) ==
    LET kw == ParseInt(PyStr(sget(s, cfg, "KEEP_WAV", JStr(cfg["KEEP_WAV"]))))
        ow == ParseInt(PyStr(sget(s, cfg, "OVERWRITE", JStr(cfg["OVERWRITE"]))))
    IN  [ok |-> kw >= 0 /\ ow >= 0,
         var |->
           [whisper_bin |-> PyStr(sget(s, cfg, "whisper_bin", JStr(cfg["WHISPER_BIN"]))),
            model_path |-> PyStr(sget(s, cfg, "model_path", JStr(cfg["WHISPER_MODEL"]))),
            ffmpeg_bin |-> PyStr(sget(s, cfg, "ffmpeg_bin", JStr(cfg["FFMPEG_BIN"]))),
            lang |-> PyStr(sget(s, cfg, "lang", JStr(cfg["LANG"]))),
            outdir |-> PyStr(sget(s, cfg, "outdir", JStr(cfg["OUTDIR"]))),
            extra_args |-> PyStr(sget(s, cfg, "extra_args", JStr(""))),
            keep_wav |-> kw > 0,
            overwrite |-> ow > 0,
            output_txt |-> PyBool(SettingsGet(s, "output_txt", JBool(TRUE))),
            output_srt |-> PyBool(SettingsGet(s, "output_srt", JBool(FALSE))),
            output_vtt |-> PyBool(SettingsGet(s, "output_vtt", JBool(FALSE))),
            ctx_flag |-> PyStr(SettingsGet(s, "ctx_flag", JStr("--max-context"))),
            ctx_size |-> PyStr(SettingsGet(s, "ctx_size", JStr(""))),
            threads |-> PyStr(SettingsGet(s, "threads", JStr(""))),
            per_file_subdir |-> PyBool(SettingsGet(s, "per_file_subdir", JBool(TRUE)))]]

\* The Tk variables before App.__init__ has run.
NoVars == EffectiveVars(Empty, DEFAULTS).var

\* App.__init__
AppInit ==
    /\ phase = "boot"
    /\ LET r == EffectiveVars(settings, MergedCfg(conf))
       IN  IF r.ok
           THEN /\ phase' = "ready"
                /\ var' = r.var
                /\ params' = SettingsGet(settings, "params", JList(<<>>)).list
           ELSE /\ phase' = "crashed"
                /\ UNCHANGED <<var, params>>
    /\ UNCHANGED <<conf, settings, files, go_btn, status, worker, th, dirs, fs,
                   clock, edits>>

---------------------------------------------------------------------------
\* Persistence and the interactive handlers of the main thread.

Ready == phase = "ready"

\* persist_now(key, value): write-through of one field of the settings record
persist_now(key, value) == settings' = Put(settings, key, value)

\* the trace on self.overwrite: persist_now("OVERWRITE", int(self.overwrite.get()))
toggle_overwrite ==
    /\ Ready /\ edits < MaxEdits
    /\ var' = [var EXCEPT !.overwrite = ~@]
    /\ persist_now("OVERWRITE", JInt(IF var'.overwrite THEN 1 ELSE 0))
    /\ edits' = edits + 1
    /\ UNCHANGED <<phase, conf, params, files, go_btn, status, worker, th, dirs, fs, clock>>

\* the trace on self.keep_wav
toggle_keep_wav ==
    /\ Ready /\ edits < MaxEdits
    /\ var' = [var EXCEPT !.keep_wav = ~@]
    /\ persist_now("KEEP_WAV", JInt(IF var'.keep_wav THEN 1 ELSE 0))
    /\ edits' = edits + 1
    /\ UNCHANGED <<phase, conf, params, files, go_btn, status, worker, th, dirs, fs, clock>>

\* the trace on self.per_file_subdir
toggle_per_file_subdir ==
    /\ Ready /\ edits < MaxEdits
    /\ var' = [var EXCEPT !.per_file_subdir = ~@]
    /\ persist_now("per_file_subdir", JBool(var'.per_file_subdir))
    /\ edits' = edits + 1
    /\ UNCHANGED <<phase, conf, params, files, go_btn, status, worker, th, dirs, fs, clock>>

\* The loop of add_files: append each path that is not in the list yet.
RECURSIVE AppendNew(_, _)
AppendNew(fl, paths) ==
    IF paths = <<>> THEN fl
    ELSE AppendNew(IF Head(paths) \in Range(fl) THEN fl ELSE Append(fl, Head(paths)),
                   Tail(paths))

\* What the file dialog can return: one file, or both in the order it lists them.
Picks ==
    {<<a>> : a \in Inputs} \cup {<<"clip", "clip2">>}

add_files ==
    /\ Ready /\ edits < MaxEdits
    /\ \E paths \in Picks :
         /\ files' = AppendNew(files, paths)
         /\ persist_now("recent_input_dir", JStr(InDir))
    /\ edits' = edits + 1
    /\ UNCHANGED <<phase, conf, var, params, go_btn, status, worker, th, dirs, fs, clock>>

\* The list without the positions in sel.
RECURSIVE DropAt(_, _, _)
DropAt(fl, sel, i) ==
    IF i > Len(fl) THEN <<>>
    ELSE (IF i \in sel THEN <<>> ELSE <<fl[i]>>) \o DropAt(fl, sel, i + 1)

remove_selected ==
    /\ Ready /\ edits < MaxEdits
    /\ \E sel \in (SUBSET (1..Len(files))) \ {{}} :
         files' = DropAt(files, sel, 1)
    /\ edits' = edits + 1
    /\ UNCHANGED <<phase, conf, settings, var, params, go_btn, status, worker, th,
                   dirs, fs, clock>>

clear_files ==
    /\ Ready /\ edits < MaxEdits
    /\ files # <<>>
    /\ files' = <<>>
    /\ edits' = edits + 1
    /\ UNCHANGED <<phase, conf, settings, var, params, go_btn, status, worker, th,
                   dirs, fs, clock>>

\* A row of self.param_tree; save_param_list stores the same three fields.
Row(on, name, value) == [enabled |-> on, name |-> name, value |-> value]

\* save_param_list: the rows of the tree become settings["params"]
save_param_list(rows) == persist_now("params", JList(rows))

\* What the user can have typed into the name and value entries.
NameEntries == {" ", " --flag"}
ValueEntries == {"", " 0.2 "}

\* Upsert that deletes the row of that name and adds the new one at the end.
Upsert_MoveToEnd(rows, r) ==
    Append(SelectSeq(rows, LAMBDA x : x.name # r.name), r)

\* The rows after param_add_update: the first row of that name replaced in
\* place, or a new row at the end.
Upsert(rows, r) ==
    IF \E i \in 1..Len(rows) : rows[i].name = r.name
    THEN LET k == CHOOSE i \in 1..Len(rows) :
                     /\ rows[i].name = r.name
                     /\ \A j \in 1..(i - 1) : rows[j].name # r.name
         IN  [rows EXCEPT ![k] = r]
    ELSE Append(rows, r)

\* param_add_update with n, v and on in the name, value and enabled widgets
AddUpdate(n, v, on) ==
    /\ Ready /\ edits < MaxEdits
    /\ LET name == Strip(n)
       IN  IF name = ""
           THEN UNCHANGED <<params, settings>>
           ELSE /\ params' = Upsert(params, Row(on, name, Strip(v)))
                /\ save_param_list(params')
    /\ edits' = edits + 1
    /\ UNCHANGED <<phase, conf, var, files, go_btn, status, worker, th, dirs, fs, clock>>

param_add_update ==
    \E n \in NameEntries, v \in ValueEntries, on \in BOOLEAN : AddUpdate(n, v, on)

param_remove ==
    /\ Ready /\ edits < MaxEdits
    /\ \E sel \in SUBSET (1..Len(params)) :
         /\ params' = DropAt(params, sel, 1)
         /\ save_param_list(params')
    /\ edits' = edits + 1
    /\ UNCHANGED <<phase, conf, var, files, go_btn, status, worker, th, dirs, fs, clock>>

---------------------------------------------------------------------------
\* Paths. A directory is [base, sub, n]: the base directory itself (n = 0), or
\* its subfolder named sub (n = 1) or "sub (n)" (n >= 2). A file is
\* [dir, stem, kind]: stem.16k.mono.wav ("wav"), stem.txt ("txt") or
\* stem.16k.mono.wav.txt ("wavtxt") in dir.

Dir(base, sub, n) == [base |-> base, sub |-> sub, n |-> n]
BaseDir(base) == Dir(base, "", 0)
NoDir == Dir("", "", 0)
File(d, stem, kind) == [dir |-> d, stem |-> stem, kind |-> kind]

\* name.startswith(prefix), on the stems of Inputs
StartsWith(name, prefix) == name = prefix \/ (prefix = "clip" /\ name = "clip2")

\* artifacts_dir.glob(f"{stem}*.txt"): the .txt files of d whose name starts with stem
Glob(f, d, stem) ==
    {p \in DOMAIN f : p.dir = d /\ p.kind \in {"txt", "wavtxt"} /\ StartsWith(p.stem, stem)}

RECURSIVE unique_alt(_, _, _, _)
unique_alt(ds, base, name, i) ==
    IF Dir(base, name, i) \notin ds THEN Dir(base, name, i)
    ELSE unique_alt(ds, base, name, i + 1)

\* unique_dir that stops at "name (2)" without probing further.
unique_dir_NoProbe(ds, base, name) ==
    IF Dir(base, name, 1) \notin ds THEN Dir(base, name, 1)
    ELSE Dir(base, name, 2)

\* unique_dir(base, name), given the directories ds that exist
unique_dir(ds, base, name) ==
    IF Dir(base, name, 1) \notin ds THEN Dir(base, name, 1)
    ELSE unique_alt(ds, base, name, 2)

\* newest_existing(paths): the candidates max() can return, none if the set is empty
newest_existing(f, paths) ==
    LET ex == paths \cap DOMAIN f
    IN  {p \in ex : \A q \in ex : f[q] <= f[p]}

---------------------------------------------------------------------------
\* The worker thread: run_pipeline and process_one.

Threads == 1..(MaxRuns + 1)

\* What run_pipeline finds on the machine when it validates the setup.
Envs == [whisper : BOOLEAN, model : BOOLEAN, ffmpeg : BOOLEAN, outdir : BOOLEAN]
NoEnv == [whisper |-> TRUE, model |-> TRUE, ffmpeg |-> TRUE, outdir |-> TRUE]

\* How a call of the transcription engine can end: a non-zero exit, or exit 0
\* having written stem.txt, stem.16k.mono.wav.txt, or no transcript at all.
EngineOutcomes == {"fail", "txt", "wavtxt", "none"}

\* One entry of a thread's record of what it did: a child process ("ffmpeg",
\* "engine"), the deletion of the audio file ("unlink"), or the per-file
\* report ("ok" for the check mark, "err" for log_err).
Event(kind, pos, file, d, ok, args) ==
    [ev |-> kind, pos |-> pos, file |-> file, dir |-> d, ok |-> ok, args |-> args]

\* Facts about the current call of process_one, kept for the properties.
NoCall ==
    [sub |-> FALSE, prior |-> FALSE, fresh |-> FALSE, ffm |-> "", eng |-> "",
     cands |-> Empty]

NoThread ==
    [pc |-> "none", outdir |-> "", ffmpeg_bin |-> "", keep_wav |-> FALSE,
     overwrite |-> FALSE, base_whisper |-> <<>>, it |-> 0, inpath |-> "",
     adir |-> NoDir, result |-> "none", log |-> <<>>, env |-> NoEnv,
     snap |-> [files |-> <<>>, sub |-> FALSE, rows |-> <<>>, opts |-> NoVars], same |-> TRUE, shlex |-> TRUE,
     call |-> NoCall]

\* Caught without the try/except of the file loop: the failure ends the run.
Caught_Propagates(me, d) ==
    [me EXCEPT !.pc = "exit", !.result = "Error",
               !.log = Append(@, Event("err", me.it, me.inpath, d, FALSE, <<>>))]

\* "except Exception as e: self.log_err(...)" in the file loop: the thread after
\* a failure of the call for the file at its position, in directory d.
Caught(me, d) ==
    [me EXCEPT !.pc = "loop",
               !.log = Append(@, Event("err", me.it, me.inpath, d, FALSE, <<>>))]

\* StepAfter with the cleanup placed before the transcription.
StepAfter_CleanupFirst(pc) ==
    CASE pc = "mkdir" -> "extract"
      [] pc = "extract" -> "cleanup"
      [] pc = "cleanup" -> "transcribe"
      [] OTHER -> "loop"

\* The order of the steps of process_one.
StepAfter(pc) ==
    CASE pc = "mkdir" -> "extract"
      [] pc = "extract" -> "transcribe"
      [] pc = "transcribe" -> "cleanup"
      [] OTHER -> "loop"

\* ShouldSkip that never skips.
ShouldSkip_Never(f, p, overwrite) == FALSE

\* "if wav.exists() and not overwrite" / "if txt.exists() and not overwrite"
ShouldSkip(f, p, overwrite) == p \in DOMAIN f /\ ~overwrite

Alive(t) == t \in DOMAIN th /\ th[t].pc \notin {"none", "dead"}

\* The tokens of the parameter rows (run_pipeline, "Custom params").
\* ParamArgs that passes disabled rows too.
RECURSIVE ParamArgs_All(_)
ParamArgs_All(rows) ==
    IF rows = <<>> THEN <<>>
    ELSE LET r == Head(rows)
         IN  (IF r.value # "" THEN <<r.name, r.value>> ELSE <<r.name>>)
             \o ParamArgs_All(Tail(rows))

\* "Custom params (enabled only)": the tokens of the rows of the tree
RECURSIVE ParamArgs(_)
ParamArgs(rows) ==
    IF rows = <<>> THEN <<>>
    ELSE LET r == Head(rows)
             toks == IF r.enabled /\ Strip(r.name) # ""
                     THEN (IF Strip(r.value) # ""
                           THEN <<Strip(r.name), Strip(r.value)>>
                           ELSE <<Strip(r.name)>>)
                     ELSE <<>>
         IN  toks \o ParamArgs(Tail(rows))

\* base_whisper, the engine's command without the audio file
BaseWhisper(v, rows, extra) ==
    <<Strip(v.whisper_bin), "-m", Strip(v.model_path), "-l",
      IF Strip(v.lang) # "" THEN Strip(v.lang) ELSE "ru">>
    \o (IF v.output_txt THEN <<"--output-txt", "true">> ELSE <<>>)
    \o (IF v.output_srt THEN <<"--output-srt", "true">> ELSE <<>>)
    \o (IF v.output_vtt THEN <<"--output-vtt", "true">> ELSE <<>>)
    \o (IF Strip(v.threads) # "" THEN <<"-t", Strip(v.threads)>> ELSE <<>>)
    \o (IF Strip(v.ctx_size) # ""
        THEN <<IF Strip(v.ctx_flag) # "" THEN Strip(v.ctx_flag) ELSE "--max-context",
               Strip(v.ctx_size)>>
        ELSE <<>>)
    \o ParamArgs(rows)
    \o extra

\* extra = shlex.split(...) if the field is not blank else []
ExtraArgs(v) ==
    IF Strip(v.extra_args) # "" THEN ShlexSplit(Strip(v.extra_args))
    ELSE [ok |-> TRUE, toks |-> <<>>]

\* SetupError without the check of the model path.
SetupError_NoModelCheck(v, e) ==
    IF ~ExtraArgs(v).ok THEN "ValueError"
    ELSE IF ~e.whisper THEN "whisper-cli not found"
    ELSE IF ~e.ffmpeg THEN "ffmpeg not in PATH"
    ELSE IF Strip(v.outdir) # "" /\ ~e.outdir THEN "mkdir failed"
    ELSE ""

\* The checks at the head of run_pipeline: "" when all pass, else the error raised.
SetupError(v, e) ==
    IF ~ExtraArgs(v).ok THEN "ValueError"
    ELSE IF ~e.whisper THEN "whisper-cli not found"
    ELSE IF ~e.model THEN "Model not found"
    ELSE IF ~e.ffmpeg THEN "ffmpeg not in PATH"
    ELSE IF Strip(v.outdir) # "" /\ ~e.outdir THEN "mkdir failed"
    ELSE ""

\* run_pipeline up to the file loop
SetupT(t) ==
    /\ th[t].pc = "setup"
    /\ \E e \in Envs :
         LET err == SetupError(var, e)
             loc == [th[t] EXCEPT
                       !.outdir = Strip(var.outdir),
                       !.ffmpeg_bin = Strip(var.ffmpeg_bin),
                       !.keep_wav = var.keep_wav,
                       !.overwrite = var.overwrite,
                       !.env = e,
                       !.shlex = ExtraArgs(var).ok,
                       !.snap = [files |-> files, sub |-> var.per_file_subdir,
                                 rows |-> params, opts |-> var]]
         IN  IF err = ""
             THEN /\ th' = [th EXCEPT ![t] =
                              [loc EXCEPT !.pc = "loop",
                                          !.base_whisper =
                                              BaseWhisper(var, params, ExtraArgs(var).toks)]]
                  /\ dirs' = IF loc.outdir # "" THEN dirs \cup {BaseDir(loc.outdir)} ELSE dirs
                  /\ UNCHANGED <<status, go_btn>>
             ELSE /\ th' = [th EXCEPT ![t] = [loc EXCEPT !.pc = "exit", !.result = "Error"]]
                  /\ status' = "Error"
                  /\ go_btn' = "normal"
                  /\ UNCHANGED dirs
    /\ UNCHANGED <<phase, conf, settings, var, params, files, worker, fs, clock, edits>>

\* The artifacts directory process_one decides on, given the directories ds.
ArtifactsDir(ds, base, stem, sub, overwrite) ==
    IF sub
    THEN (IF overwrite THEN Dir(base, stem, 1)
          ELSE IF Dir(base, stem, 1) \in ds THEN unique_dir(ds, base, stem)
          ELSE Dir(base, stem, 1))
    ELSE BaseDir(base)

\* Both targets of an earlier call for this input are on disk.
PriorTargets(base, stem, sub) ==
    \E d \in dirs :
       /\ d.base = base
       /\ IF sub THEN d.sub = stem /\ d.n >= 1 ELSE d.n = 0
       /\ File(d, stem, "wav") \in DOMAIN fs
       /\ File(d, stem, "txt") \in DOMAIN fs

\* The next turn of "for inpath in self.files" and process_one up to the
\* creation of the artifacts directory.
LoopNextT(t) ==
    /\ th[t].pc = "loop"
    /\ th[t].it < Len(files)
    /\ LET pos == th[t].it + 1
           inpath == files[pos]
           base == IF th[t].outdir # "" THEN th[t].outdir ELSE InDir
           sub == var.per_file_subdir
           ad == ArtifactsDir(dirs, base, inpath, sub, th[t].overwrite)
           me == [th[t] EXCEPT !.it = pos, !.inpath = inpath, !.adir = NoDir,
                               !.same = @ /\ files = th[t].snap.files,
                               !.call = [NoCall EXCEPT
                                           !.sub = sub,
                                           !.prior = PriorTargets(base, inpath, sub),
                                           !.fresh = Dir(base, inpath, 1) \notin dirs]]
       IN  /\ ad.n <= MaxSuffix
           /\ \E exists \in BOOLEAN, mk \in BOOLEAN :
                IF ~exists
                THEN \* "Not a file": logged, process_one returns
                     /\ mk
                     /\ th' = [th EXCEPT ![t] =
                                 [me EXCEPT !.log = Append(@,
                                     Event("err", pos, inpath, NoDir, FALSE, <<>>))]]
                     /\ UNCHANGED dirs
                ELSE IF ad \in dirs \/ mk
                THEN /\ (ad \in dirs => mk)
                     /\ th' = [th EXCEPT ![t] =
                                 [me EXCEPT !.pc = StepAfter("mkdir"), !.adir = ad]]
                     /\ dirs' = dirs \cup {ad}
                ELSE \* mkdir raises OSError
                     /\ th' = [th EXCEPT ![t] = Caught(me, ad)]
                     /\ UNCHANGED dirs
    /\ UNCHANGED <<phase, conf, settings, var, params, files, go_btn, status, worker,
                   fs, clock, edits>>

\* process_one, "Extract WAV"
ExtractT(t) ==
    /\ th[t].pc = "extract"
    /\ LET me == th[t]
           wav == File(me.adir, me.inpath, "wav")
       IN  IF ShouldSkip(fs, wav, me.overwrite)
           THEN /\ th' = [th EXCEPT ![t] =
                           [me EXCEPT !.pc = StepAfter("extract"), !.call.ffm = "skip"]]
                /\ UNCHANGED <<fs, clock>>
           ELSE \E ok \in BOOLEAN :
                  LET ev == Event("ffmpeg", me.it, me.inpath, me.adir, ok,
                                  <<me.ffmpeg_bin, "-y", "-i", me.inpath, "-vn", "-ac", "1",
                                    "-ar", "16000">>)
                  IN  IF ok
                      THEN /\ fs' = Put(fs, wav, clock)
                           /\ clock' = clock + 1
                           /\ th' = [th EXCEPT ![t] =
                                       [me EXCEPT !.pc = StepAfter("extract"),
                                                  !.call.ffm = "ok",
                                                  !.log = Append(@, ev)]]
                      ELSE /\ th' = [th EXCEPT ![t] =
                                       Caught([me EXCEPT !.call.ffm = "fail",
                                                         !.log = Append(@, ev)], me.adir)]
                           /\ UNCHANGED <<fs, clock>>
    /\ UNCHANGED <<phase, conf, settings, var, params, files, go_btn, status, worker,
                   dirs, edits>>

\* The files on disk after the engine has exited 0 with outcome out.
EngineWrites(f, d, stem, out, now) ==
    CASE out = "txt" -> Put(f, File(d, stem, "txt"), now)
      [] out = "wavtxt" -> Put(f, File(d, stem, "wavtxt"), now)
      [] OTHER -> f

\* The candidates process_one searches when stem.txt is missing.
Candidates(f, d, stem) == Glob(f, d, stem) \cup {File(d, stem, "wavtxt")}

\* Normalize that never renames.
Normalize_NoRename(f, d, stem, n) == f

\* newest.rename(txt)
Rename(f, from, to) == Put(Without(f, from), to, f[from])

\* "Normalize common output filenames to stem.txt", with n the path
\* newest_existing returned (NoDir-file when it returned None).
Normalize(f, d, stem, n) ==
    LET txt == File(d, stem, "txt")
    IN  IF txt \notin DOMAIN f
        THEN (IF n \in DOMAIN f /\ n # txt THEN Rename(f, n, txt) ELSE f)
        ELSE f

\* process_one, "Transcribe"
TranscribeT(t) ==
    /\ th[t].pc = "transcribe"
    /\ LET me == th[t]
           txt == File(me.adir, me.inpath, "txt")
           wav == File(me.adir, me.inpath, "wav")
       IN  IF ShouldSkip(fs, txt, me.overwrite)
           THEN /\ th' = [th EXCEPT ![t] =
                           [me EXCEPT !.pc = StepAfter("transcribe"), !.call.eng = "skip"]]
                /\ UNCHANGED <<fs, clock>>
           ELSE \E out \in EngineOutcomes :
                  LET ev == Event("engine", me.it, me.inpath, me.adir, out # "fail",
                                  me.base_whisper \o <<"-f">>)
                      f1 == EngineWrites(fs, me.adir, me.inpath, out, clock)
                      cs == Candidates(f1, me.adir, me.inpath) \cap DOMAIN f1
                      new == newest_existing(f1, Candidates(f1, me.adir, me.inpath))
                  IN  IF out = "fail"
                      THEN /\ th' = [th EXCEPT ![t] =
                                       Caught([me EXCEPT !.call.eng = out,
                                                         !.log = Append(@, ev)], me.adir)]
                           /\ UNCHANGED <<fs, clock>>
                      ELSE /\ \E n \in (IF new = {} THEN {File(NoDir, "", "txt")} ELSE new) :
                                fs' = Normalize(f1, me.adir, me.inpath, n)
                           /\ clock' = clock + 1
                           /\ th' = [th EXCEPT ![t] =
                                       [me EXCEPT !.pc = StepAfter("transcribe"),
                                                  !.call.eng = out,
                                                  !.call.cands = [c \in cs |-> f1[c]],
                                                  !.log = Append(@, ev)]]
    /\ UNCHANGED <<phase, conf, settings, var, params, files, go_btn, status, worker,
                   dirs, edits>>

\* process_one, "Cleanup" and the report
CleanupT(t) ==
    /\ th[t].pc = "cleanup"
    /\ LET me == th[t]
           txt == File(me.adir, me.inpath, "txt")
           wav == File(me.adir, me.inpath, "wav")
           del == ~me.keep_wav /\ wav \in DOMAIN fs
           rep == Event(IF txt \in DOMAIN fs THEN "ok" ELSE "err", me.it, me.inpath,
                        me.adir, txt \in DOMAIN fs, <<>>)
       IN  /\ fs' = IF del THEN Without(fs, wav) ELSE fs
           /\ th' = [th EXCEPT ![t] =
                       [me EXCEPT !.pc = StepAfter("cleanup"),
                                  !.log = @ \o (IF del
                                                THEN <<Event("unlink", me.it, me.inpath,
                                                             me.adir, TRUE, <<>>)>>
                                                ELSE <<>>) \o <<rep>>]]
    /\ UNCHANGED <<phase, conf, settings, var, params, files, go_btn, status, worker,
                   dirs, clock, edits>>

\* The loop is exhausted: "Done.", the summary box, and the finally clause.
FinishT(t) ==
    /\ th[t].pc = "loop"
    /\ th[t].it >= Len(files)
    /\ th' = [th EXCEPT ![t] = [@ EXCEPT !.pc = "exit", !.result = "Done",
                                         !.same = @ /\ files = th[t].snap.files]]
    /\ status' = "Done"
    /\ go_btn' = "normal"
    /\ UNCHANGED <<phase, conf, settings, var, params, files, worker, dirs, fs, clock, edits>>

\* run_pipeline returns and the thread ends.
ExitT(t) ==
    /\ th[t].pc = "exit"
    /\ th' = [th EXCEPT ![t] = [@ EXCEPT !.pc = "dead"]]
    /\ UNCHANGED <<phase, conf, settings, var, params, files, go_btn, status, worker,
                   dirs, fs, clock, edits>>

\* StartWorker without the is_alive() guard.
StartWorker_NoGuard ==
    IF files = <<>> THEN UNCHANGED vars
    ELSE /\ status' = "Working"
         /\ go_btn' = "disabled"
         /\ worker' = worker + 1
         /\ th' = [t \in Threads |->
                     IF t = worker + 1 THEN [NoThread EXCEPT !.pc = "setup"]
                     ELSE IF th[t].pc = "dead" THEN NoThread
                     ELSE th[t]]
         /\ UNCHANGED <<phase, conf, settings, var, params, files, dirs, fs, clock, edits>>

\* start_worker, the command of the Transcribe button
StartWorker ==
    IF worker # 0 /\ Alive(worker) THEN UNCHANGED vars
    ELSE IF files = <<>> THEN UNCHANGED vars      \* warning box "No files"
    ELSE /\ status' = "Working"
         /\ go_btn' = "disabled"
         /\ worker' = worker + 1
         /\ th' = [t \in Threads |->
                     IF t = worker + 1 THEN [NoThread EXCEPT !.pc = "setup"]
                     ELSE IF th[t].pc = "dead" THEN NoThread
                     ELSE th[t]]
         /\ UNCHANGED <<phase, conf, settings, var, params, files, dirs, fs, clock, edits>>

\* A click on the Transcribe button; a disabled button ignores clicks.
start_worker ==
    /\ Ready
    /\ go_btn = "normal"
    /\ worker < MaxRuns \/ Alive(worker)
    /\ StartWorker

Setup == \E t \in Threads : SetupT(t)
LoopNext == \E t \in Threads : LoopNextT(t)
Extract == \E t \in Threads : ExtractT(t)
Transcribe == \E t \in Threads : TranscribeT(t)
Cleanup == \E t \in Threads : CleanupT(t)
Finish == \E t \in Threads : FinishT(t)
Exit == \E t \in Threads : ExitT(t)

---------------------------------------------------------------------------
\* Specifications.

\* A settings record that holds the options of process_one.
Options(kw, ow, sub, od) ==
    [k \in {"KEEP_WAV", "OVERWRITE", "per_file_subdir", "outdir", "recent_input_dir"} |->
        CASE k = "KEEP_WAV" -> JInt(kw)
          [] k = "OVERWRITE" -> JInt(ow)
          [] k = "per_file_subdir" -> JBool(sub)
          [] k = "outdir" -> JStr(od)
          [] OTHER -> JStr(InDir)]

\* What an earlier session can have left on disk.
EmptyDisk == [dirs |-> {BaseDir(InDir)}, fs |-> Empty]

InitWith(confs, recs, disks) ==
    /\ phase = "boot"
    /\ conf \in confs
    /\ settings \in recs
    /\ var = NoVars
    /\ params = <<>>
    /\ files = <<>>
    /\ go_btn = "normal"
    /\ status = "Idle"
    /\ worker = 0
    /\ th = [t \in Threads |-> NoThread]
    /\ \E d \in disks : dirs = d.dirs /\ fs = d.fs
    /\ clock = 3
    /\ edits = 0

Init == InitWith({<<>>}, {Options(0, 0, TRUE, "out")}, {EmptyDisk})

\* The disk after earlier sessions processed clip into "out" twice, keeping the
\* audio: once without and once with a per-file subfolder.
EarlierDisk ==
    LET o == BaseDir("out")
        c == Dir("out", "clip", 1)
    IN  [dirs |-> {BaseDir(InDir), o, c},
         fs |-> [p \in {File(o, "clip", "wav"), File(o, "clip", "txt"),
                        File(c, "clip", "wav"), File(c, "clip", "txt")} |->
                   IF p.kind = "wav" THEN 1 ELSE 2]]

\* The disk after an earlier session processed clip2 into "out" without a
\* per-file subfolder, keeping the audio.
SharedDisk ==
    LET o == BaseDir("out")
    IN  [dirs |-> {BaseDir(InDir), o},
         fs |-> [p \in {File(o, "clip2", "wav"), File(o, "clip2", "txt")} |->
                   IF p.kind = "wav" THEN 1 ELSE 2]]

InitRerun == InitWith({<<>>}, {Options(1, 0, FALSE, "out")}, {EarlierDisk, SharedDisk})

Next ==
    \/ AppInit
    \/ toggle_overwrite
    \/ toggle_keep_wav
    \/ toggle_per_file_subdir
    \/ add_files
    \/ remove_selected
    \/ clear_files
    \/ start_worker
    \/ Setup
    \/ LoopNext
    \/ Extract
    \/ Transcribe
    \/ Cleanup
    \/ Finish
    \/ Exit

Spec == Init /\ [][Next]_vars

\* A session that starts on the disk earlier sessions left.
SpecRerun == InitRerun /\ [][Next]_vars

\* Config files a user can have written.
ConfFiles ==
    {<<>>,
     <<KvLine("#", "no", ""), KvLine("LANG", "dq", "en")>>,
     <<KvLine("WHISPER_BIN", "no", "$HOME/w"), KvLine("WHISPER_MODEL", "dq", "~/m.bin"),
       KvLine("", "no", "")>>,
     <<KvLine("KEEP_WAV", "no", "1"), KvLine("OVERWRITE", "sq", "1"),
       KvLine("FFMPEG_BIN", "no", "/opt/ffmpeg")>>,
     <<KvLine("OUTDIR", "dq", "out"), KvLine("lang", "no", "de"),
       KvLine("EXTRA_ARGS", "no", "-bs 5")>>,
     <<KvLine("LANG", "no", "en"), KvLine("LANG", "no", " ")>>,
     <<KvLine("KEEP_WAV", "no", "yes")>>,
     <<KvLine("OVERWRITE", "dq", "")>>}

\* Settings records earlier sessions can have written.
Records ==
    {Empty,
     [lang |-> JStr("de")],
     [KEEP_WAV |-> JInt(1), outdir |-> JStr(""), extra_args |-> JStr("-bs 5")],
     [whisper_bin |-> JStr("/opt/w"), model_path |-> JStr("/opt/m.bin"),
      ffmpeg_bin |-> JStr("ffmpeg"), OVERWRITE |-> JInt(0),
      per_file_subdir |-> JBool(FALSE), output_srt |-> JBool(TRUE),
      ctx_size |-> JStr("2"), ctx_flag |-> JStr(""), threads |-> JStr("2")],
     Options(1, 1, TRUE, "out"),
     [params |-> JList(<<Row(TRUE, "--flag", ""), Row(TRUE, "--temperature", "0.2")>>)],
     [params |-> JList(<<Row(FALSE, "--temperature", "0.2")>>), lang |-> JStr("en")]}

InitConfig == InitWith(ConfFiles, Records, {EmptyDisk})

\* Start-up and the handlers that write the settings record.
NextConfig ==
    \/ AppInit
    \/ toggle_overwrite
    \/ toggle_keep_wav
    \/ toggle_per_file_subdir
    \/ add_files
    \/ param_add_update
    \/ param_remove

SpecConfig == InitConfig /\ [][NextConfig]_vars

\* The example parameter list: one row with a value, one disabled, one flag.
ExampleRows ==
    <<Row(TRUE, "--temperature", "0.2"), Row(FALSE, "--no-speech-thold", "0.5"),
      Row(TRUE, "--flag", "")>>

\* Options with a parameter list and the free-form fields filled in.
ArgOptions(rows, ctx, thr, extra) ==
    [k \in DOMAIN Options(0, 0, FALSE, "out")
            \cup {"params", "ctx_size", "threads", "extra_args"} |->
        CASE k = "params" -> JList(rows)
          [] k = "ctx_size" -> JStr(ctx)
          [] k = "threads" -> JStr(thr)
          [] k = "extra_args" -> JStr(extra)
          [] OTHER -> Options(0, 0, FALSE, "out")[k]]

ArgRecords ==
    {ArgOptions(ExampleRows, "2", "2", "-bs 5"),
     ArgOptions(<<>>, "", "", "--prompt 'a b'"),
     ArgOptions(<<Row(FALSE, "--flag", "")>>, "", "2", "--prompt 'a")}

InitArgs == InitWith({<<>>}, ArgRecords, {EmptyDisk})

\* Sessions that edit the parameter list and run the pipeline.
NextArgs ==
    \/ AppInit
    \/ param_add_update
    \/ param_remove
    \/ add_files
    \/ start_worker
    \/ Setup
    \/ LoopNext
    \/ Extract
    \/ Transcribe
    \/ Cleanup
    \/ Finish
    \/ Exit

SpecArgs == InitArgs /\ [][NextArgs]_vars

\* Disks on which earlier runs left (empty) subfolders of clip in "out".
DirDisks ==
    {[dirs |-> {BaseDir(InDir), BaseDir("out")} \cup {Dir("out", "clip", n) : n \in S},
      fs |-> Empty] : S \in SUBSET (1..(MaxSuffix - 1))}

InitDirs == InitWith({<<>>}, {Options(0, 0, TRUE, "out")}, DirDisks)

\* Sessions that run the pipeline into per-file subfolders.
NextDirs ==
    \/ AppInit
    \/ toggle_overwrite
    \/ add_files
    \/ start_worker
    \/ Setup
    \/ LoopNext
    \/ Extract
    \/ Transcribe
    \/ Cleanup
    \/ Finish
    \/ Exit

SpecDirs == InitDirs /\ [][NextDirs]_vars

---------------------------------------------------------------------------
\* Vocabulary of the properties.

\* The events of thread t of the kinds given.
Sel(t, kinds) == SelectSeq(th[t].log, LAMBDA e : e.ev \in kinds)
ToolCalls(t) == Sel(t, {"ffmpeg", "engine"})
Reports(t) == Sel(t, {"ok", "err"})
Attempted(t) == [i \in 1..Len(Reports(t)) |-> Reports(t)[i].file]

\* The events of the call of process_one at position pos.
AtPos(t, pos, kinds) == SelectSeq(th[t].log, LAMBDA e : e.ev \in kinds /\ e.pos = pos)

SetupDone(t) == th[t].pc \notin {"none", "setup"}
Ended(t) == th[t].pc \in {"exit", "dead"}

\* One of the four pre-run checks fails on what the thread found.
ValidationFailed(t) ==
    /\ SetupDone(t)
    /\ \/ ~th[t].env.whisper
       \/ ~th[t].env.model
       \/ ~th[t].env.ffmpeg
       \/ (th[t].outdir # "" /\ ~th[t].env.outdir)

Passed(t) == SetupDone(t) /\ ~ValidationFailed(t) /\ th[t].shlex

\* The call of process_one at the thread's position has returned or raised.
CallDone(t) ==
    /\ th[t].it >= 1
    /\ th[t].pc \in {"loop", "exit", "dead"}

LastReport(t) == Reports(t)[Len(Reports(t))]

Rank(e) ==
    CASE e.ev = "ffmpeg" -> 1
      [] e.ev = "engine" -> 2
      [] e.ev = "unlink" -> 3
      [] OTHER -> 4

---------------------------------------------------------------------------
\* Properties of the pipeline, checked under Spec.

\* C1: when one of the pre-run checks of run_pipeline fails (engine binary,
\* model, transcoder, output directory), the run invokes no child process for
\* any file of the list.
C1_NoChildAfterFailedValidation ==
    \A t \in Threads : ValidationFailed(t) => ToolCalls(t) = <<>> /\ th[t].it = 0

\* A run over a non-empty list has ended in "Error" because the model is missing.
C1_Witness ==
    \E t \in Threads :
       /\ th[t].pc = "dead" /\ th[t].result = "Error"
       /\ th[t].env.whisper /\ ~th[t].env.model
       /\ files # <<>>

\* C2: at most one worker thread is alive at any moment, and while the last
\* started worker is alive no step starts another one or replaces self.worker.
C2_AtMostOneWorker ==
    /\ [](Cardinality({t \in Threads : Alive(t)}) <= 1)
    /\ [][(worker # 0 /\ Alive(worker)) =>
            /\ worker' = worker
            /\ \A t \in Threads : th[t].pc = "none" => th'[t].pc = "none"]_vars

\* The button is enabled again while the worker is still alive: a click here
\* is a run request made to a live worker.
C2_Witness ==
    /\ worker # 0 /\ Alive(worker)
    /\ go_btn = "normal"
    /\ files # <<>>

\* C3: a per-file failure never stops the run. A run that passed validation
\* never ends in "Error"; when it has ended it shows the completion summary,
\* every position the loop took has its report, and if the loop read the list
\* as it was at the start, every file of the list was attempted.
C3_FailureNeverStopsRun ==
    \A t \in Threads :
       Passed(t) =>
          /\ th[t].result # "Error"
          /\ Ended(t) =>
               /\ th[t].result = "Done"
               /\ Len(Reports(t)) = th[t].it
               /\ th[t].same => Attempted(t) = th[t].snap.files

\* A finished run whose first file failed in the transcoder and whose second
\* file was transcribed.
C3_Witness ==
    \E t \in Threads :
       /\ Ended(t) /\ th[t].result = "Done"
       /\ Len(Reports(t)) = 2
       /\ Reports(t)[1].ev = "err"
       /\ \E i \in 1..Len(th[t].log) : th[t].log[i].ev = "ffmpeg" /\ ~th[t].log[i].ok
       /\ Reports(t)[2].ev = "ok"

\* C4: files are processed one at a time in list order; within a file the
\* transcoder runs before the engine, the engine before the deletion of the
\* audio file; a file's steps start only after the previous file's report.
C4_StepOrder ==
    \A t \in Threads :
       LET log == th[t].log
       IN  /\ \A i, j \in 1..Len(log) :
                i < j => /\ log[i].pos <= log[j].pos
                         /\ log[i].pos = log[j].pos => Rank(log[i]) < Rank(log[j])
           /\ \A i \in 1..Len(log) :
                /\ (i < Len(log) /\ log[i].pos # log[i + 1].pos) => Rank(log[i]) = 4
                /\ th[t].same => log[i].file = th[t].snap.files[log[i].pos]

\* The second file of a list is in the transcoder after the first file went
\* through transcoder, engine and deletion.
C4_Witness ==
    \E t \in Threads :
       /\ Len(AtPos(t, 1, {"ffmpeg", "engine", "unlink"})) = 3
       /\ Len(AtPos(t, 2, {"ffmpeg"})) = 1

\* C7: for an existing input with stem S, overwrite off, per-file subfolder on,
\* keep-audio off and nothing at outputBase/S, a call of process_one in which
\* both tools succeed creates outputBase/S, runs each tool exactly once and
\* ends with S.txt present and S.16k.mono.wav absent there.
C7_FreshCall ==
    \A t \in Threads :
       LET me == th[t]
           base == IF me.outdir # "" THEN me.outdir ELSE InDir
           d == Dir(base, me.inpath, 1)
       IN  (/\ CallDone(t)
            /\ me.call.sub /\ me.call.fresh
            /\ ~me.overwrite /\ ~me.keep_wav
            /\ me.call.ffm = "ok" /\ me.call.eng \in {"txt", "wavtxt"})
           => /\ d \in dirs
              /\ Len(AtPos(t, me.it, {"ffmpeg"})) = 1
              /\ Len(AtPos(t, me.it, {"engine"})) = 1
              /\ File(d, me.inpath, "txt") \in DOMAIN fs
              /\ File(d, me.inpath, "wav") \notin DOMAIN fs
              /\ LastReport(t).ev = "ok" /\ LastReport(t).dir = d

\* Such a call, in which the engine wrote the transcript next to the audio.
C7_Witness ==
    \E t \in Threads :
       /\ CallDone(t)
       /\ th[t].call.sub /\ th[t].call.fresh
       /\ ~th[t].overwrite /\ ~th[t].keep_wav
       /\ th[t].call.ffm = "ok" /\ th[t].call.eng = "wavtxt"
       /\ LastReport(t).ev = "ok"

\* C8: a run works on a snapshot taken at its start: whatever the session
\* does meanwhile, the run attempts exactly the files the list held and uses
\* the per-file-subfolder setting of that moment.
C8_RunUsesSnapshot ==
    \A t \in Threads :
       (Passed(t) /\ Ended(t)) =>
          /\ Attempted(t) = th[t].snap.files
          /\ \A i \in 1..Len(Reports(t)) :
               Reports(t)[i].dir # NoDir =>
                  (Reports(t)[i].dir.n >= 1) = th[t].snap.sub

---------------------------------------------------------------------------
\* Properties of a re-run, checked under SpecRerun.

\* C5 as claimed: a call of process_one with overwrite off, made when both
\* targets of an earlier call for the input are on disk, invokes neither tool
\* and reports success, whatever the per-file-subfolder option is.
C5_RerunSkipsBoth ==
    \A t \in Threads :
       (/\ CallDone(t)
        /\ ~th[t].overwrite
        /\ th[t].call.prior
        /\ th[t].call.ffm # "")
       => /\ AtPos(t, th[t].it, {"ffmpeg", "engine"}) = <<>>
          /\ LastReport(t).ev = "ok"

\* C5 as amended: the same, for calls made with the per-file-subfolder option off.
C5_RerunSkipsBothFlat ==
    \A t \in Threads :
       (/\ CallDone(t)
        /\ ~th[t].overwrite
        /\ ~th[t].call.sub
        /\ th[t].call.prior
        /\ th[t].call.ffm # "")
       => /\ AtPos(t, th[t].it, {"ffmpeg", "engine"}) = <<>>
          /\ LastReport(t).ev = "ok"

\* A re-run without subfolder that skipped both steps and reported success.
C5_Witness ==
    \E t \in Threads :
       /\ CallDone(t)
       /\ ~th[t].overwrite /\ ~th[t].call.sub /\ th[t].call.prior
       /\ th[t].call.ffm = "skip" /\ th[t].call.eng = "skip"
       /\ LastReport(t).ev = "ok"

\* The newest modification time among the candidates cs (path -> time).
MaxTime(cs) == CHOOSE m \in {cs[c] : c \in DOMAIN cs} : \A c \in DOMAIN cs : cs[c] <= m

\* C6: after the engine exits 0 without writing stem.txt itself: if a candidate
\* exists (a stem*.txt of the artifacts directory, or the audio path plus
\* ".txt"), the most recently modified one is what stem.txt holds afterwards
\* and success is reported; if none exists an error is reported for the file
\* and the loop goes on.
C6_NewestCandidateRenamed ==
    \A t \in Threads :
       LET me == th[t]
           txt == File(me.adir, me.inpath, "txt")
       IN  (CallDone(t) /\ me.call.eng \in {"wavtxt", "none"})
           => IF DOMAIN me.call.cands # {}
              THEN /\ txt \in DOMAIN fs
                   /\ fs[txt] = MaxTime(me.call.cands)
                   /\ LastReport(t).ev = "ok"
              ELSE /\ txt \notin DOMAIN fs
                   /\ LastReport(t).ev = "err"
                   /\ me.result # "Error"

---------------------------------------------------------------------------
\* Properties of the configuration merge, checked under SpecConfig.

\* The text a three-level field takes from its sources: the settings record's
\* value when the key is there, else the config file's, else the default.
Layered(skey, fkey) ==
    LET file == load_shellish_kv_config(conf)
    IN  IF skey \in DOMAIN settings THEN PyStr(settings[skey])
        ELSE IF fkey \in DOMAIN file THEN file[fkey]
        ELSE DEFAULTS[fkey]

\* The value of a field only the settings record can supply.
Stored(skey, default) ==
    IF skey \in DOMAIN settings THEN settings[skey] ELSE default

\* The text t read as a flag.
FlagOf(t) == t \notin {"0", ""}

\* Every field of the effective configuration follows the precedence.
MergeFollowsPrecedence ==
    /\ var.whisper_bin = Layered("whisper_bin", "WHISPER_BIN")
    /\ var.model_path = Layered("model_path", "WHISPER_MODEL")
    /\ var.ffmpeg_bin = Layered("ffmpeg_bin", "FFMPEG_BIN")
    /\ var.lang = Layered("lang", "LANG")
    /\ var.outdir = Layered("outdir", "OUTDIR")
    /\ var.keep_wav = FlagOf(Layered("KEEP_WAV", "KEEP_WAV"))
    /\ var.overwrite = FlagOf(Layered("OVERWRITE", "OVERWRITE"))
    /\ var.extra_args = PyStr(Stored("extra_args", JStr("")))
    /\ var.ctx_flag = PyStr(Stored("ctx_flag", JStr("--max-context")))
    /\ var.ctx_size = PyStr(Stored("ctx_size", JStr("")))
    /\ var.threads = PyStr(Stored("threads", JStr("")))
    /\ var.output_txt = PyBool(Stored("output_txt", JBool(TRUE)))
    /\ var.output_srt = PyBool(Stored("output_srt", JBool(FALSE)))
    /\ var.output_vtt = PyBool(Stored("output_vtt", JBool(FALSE)))
    /\ var.per_file_subdir = PyBool(Stored("per_file_subdir", JBool(TRUE)))

\* C9: for every combination of sources, once App.__init__ has run every
\* field has a value, and it is the settings record's when the field is there,
\* else the config file's when it is there, else the default.
C9_MergeAlwaysDefined ==
    phase # "boot" => phase = "ready" /\ MergeFollowsPrecedence

\* Whenever App.__init__ returns, the fields follow the precedence.
MergePrecedenceWhenReady ==
    phase = "ready" => MergeFollowsPrecedence

---------------------------------------------------------------------------
\* Properties of the engine command, checked under SpecArgs.

\* The tokens of one row: name and value, the name alone, or nothing.
RowTokens(r) ==
    IF ~r.enabled THEN <<>>
    ELSE IF r.value # "" THEN <<r.name, r.value>>
    ELSE <<r.name>>

\* The tokens of the first n rows, in list order.
RECURSIVE TokensUpTo(_, _)
TokensUpTo(rows, n) ==
    IF n = 0 THEN <<>> ELSE TokensUpTo(rows, n - 1) \o RowTokens(rows[n])

\* The context-size tokens of the options o.
CtxTokens(o) ==
    IF o.ctx_size = "" THEN <<>>
    ELSE <<IF o.ctx_flag = "" THEN "--max-context" ELSE o.ctx_flag, o.ctx_size>>

\* The engine commands thread t has run.
EngineCmds(t) == {e.args : e \in Range(AtPos(t, th[t].it, {"engine"}))}

\* C10: every engine command of a run is head \o ctx \o P \o extra \o <<"-f">>
\* where P is the tokens of the parameter rows as they were at the start of the
\* run ([name, value], [name] or nothing per row, in list order), ctx the
\* context-size tokens and extra the tokens of the free-text field.
C10_ParamTokensInPlace ==
    \A t \in Threads : \A a \in EngineCmds(t) :
       LET P == TokensUpTo(th[t].snap.rows, Len(th[t].snap.rows))
           C == CtxTokens(th[t].snap.opts)
           X == ShlexSplit(th[t].snap.opts.extra_args).toks
           k == Len(a) - 1 - Len(X) - Len(P)
       IN  /\ k >= Len(C)
           /\ SubSeq(a, k - Len(C) + 1, k) = C
           /\ SubSeq(a, k + 1, k + Len(P)) = P
           /\ SubSeq(a, k + Len(P) + 1, Len(a) - 1) = X
           /\ a[Len(a)] = "-f"

\* The example list between context-size tokens and extra tokens.
C10_Witness ==
    \E t \in Threads : \E a \in EngineCmds(t) :
       /\ th[t].snap.rows = ExampleRows
       /\ \E k \in 1..(Len(a) - 6) :
            SubSeq(a, k, k + 6) =
               <<"--max-context", "2", "--temperature", "0.2", "--flag", "-bs", "5">>

---------------------------------------------------------------------------
\* Properties of unique_dir, checked under SpecDirs.

\* d is the first of base/name, base/"name (2)", ... that is not in ds.
FirstFree(ds, base, name, d) ==
    /\ d.base = base /\ d.sub = name /\ d.n >= 1
    /\ d \notin ds
    /\ \A j \in 1..(d.n - 1) : Dir(base, name, j) \in ds

\* C11: on every disk the session reaches, unique_dir(base, name) is the first
\* path of base/name, base/"name (2)", base/"name (3)", ... that does not exist;
\* and in every call of process_one that takes a collision-safe subfolder the
\* directory it gets did not exist before the call, all earlier names of the
\* sequence did, and nothing but that directory (process_one's own mkdir) is
\* new on disk afterwards.
C11_FirstFreeDir ==
    /\ [](\A name \in Inputs :
            FirstFree(dirs, "out", name, unique_dir(dirs, "out", name)))
    /\ [][\A t \in Threads :
            (/\ th[t].pc = "loop"
             /\ th'[t].it = th[t].it + 1
             /\ th'[t].adir # NoDir
             /\ th'[t].call.sub
             /\ ~th[t].overwrite)
            => /\ FirstFree(dirs, th[t].outdir, th'[t].inpath, th'[t].adir)
               /\ dirs' = dirs \cup {th'[t].adir}]_vars

\* A call that found clip and "clip (2)" and took "clip (3)".
C11_Witness ==
    \E t \in Threads :
       /\ th[t].call.sub /\ ~th[t].overwrite /\ ~th[t].call.fresh
       /\ th[t].inpath = "clip"
       /\ th[t].adir = Dir("out", "clip", 3)
       /\ Dir("out", "clip", 2) \in dirs

---------------------------------------------------------------------------
\* Properties of the parameter list, checked under SpecConfig.

Names(rows) == [i \in 1..Len(rows) |-> rows[i].name]

\* C12: every row of the parameter list has a non-empty name and no two rows
\* share a name; param_add_update with an empty name changes neither the list
\* nor the settings record, with the name of a row replaces that row where it
\* is (same length, same names in the same order, other rows untouched), and
\* with a new name adds the row at the end; the record holds the new list.
C12_ParamListKeepsUniqueNames ==
    /\ [](\A i \in 1..Len(params) :
            /\ params[i].name # ""
            /\ \A j \in 1..Len(params) : params[i].name = params[j].name => i = j)
    /\ [][\A n \in NameEntries, v \in ValueEntries, on \in BOOLEAN :
            AddUpdate(n, v, on) =>
               LET r == [enabled |-> on, name |-> Strip(n), value |-> Strip(v)]
               IN  IF r.name = ""
                   THEN params' = params /\ settings' = settings
                   ELSE /\ settings'["params"] = JList(params')
                        /\ IF \E i \in 1..Len(params) : params[i].name = r.name
                           THEN /\ Names(params') = Names(params)
                                /\ \A i \in 1..Len(params) :
                                     params'[i] = IF params[i].name = r.name
                                                  THEN r ELSE params[i]
                           ELSE params' = params \o <<r>>]_vars

\* The first of two rows has been updated where it is and the record holds
\* the updated list.
C12_Witness ==
    /\ Names(params) = <<"--flag", "--temperature">>
    /\ params[1] = Row(FALSE, "--flag", "0.2")
    /\ settings["params"] = JList(params)

---------------------------------------------------------------------------
\* Freshness of the reported transcript, checked under SpecRerun.

\* The call at the thread's position ran the engine, which exited 0, and
\* reported success.
EngineThenSuccess(t) ==
    /\ CallDone(t)
    /\ th[t].call.eng \in {"txt", "wavtxt", "none"}
    /\ LastReport(t).ev = "ok"

\* C13: when a call of process_one ran the engine and then reported success,
\* stem.txt holds what that engine invocation wrote: its modification time is
\* the time of the invocation (the clock has ticked once since), never that of
\* a file that was on disk before.
C13_TranscriptIsFresh ==
    \A t \in Threads :
       EngineThenSuccess(t) =>
          LET txt == File(th[t].adir, th[t].inpath, "txt")
          IN  txt \in DOMAIN fs /\ fs[txt] = clock - 1

\* The same for calls in which the engine itself wrote a transcript and no
\* stem.txt was on disk before.
FreshWhenEngineWroteAndNoStale ==
    \A t \in Threads :
       LET txt == File(th[t].adir, th[t].inpath, "txt")
       IN  (/\ EngineThenSuccess(t)
            /\ th[t].call.eng # "none"
            /\ (txt \in DOMAIN th[t].call.cands => th[t].call.eng = "txt"))
           => txt \in DOMAIN fs /\ fs[txt] = clock - 1

====
